---- MODULE Spec2Model ----
(***************************************************************************)
(* The dev session supervisor of packages/next/src/cli/next-dev.ts: the    *)
(* parent process, its stop handler, the config-file watcher callback,     *)
(* runDevServer and the router workers it creates.                         *)
(*                                                                         *)
(* The parent is single threaded: every action below is one run of the     *)
(* event loop, from the delivery of an event (or the resumption of an      *)
(* await) to the next suspension point of that code.                       *)
(*                                                                         *)
(* What the runtime does with the calls of this file:                      *)
(*  - listeners of one event run in registration order, synchronously;     *)
(*  - process.exit(c) emits 'exit' once; a process.exit(0) called by an    *)
(*    'exit' listener ends the process at once with status 0;              *)
(*  - a rejected promise nobody handles emits 'unhandledRejection', and    *)
(*    ends the process with status 1 when there is no listener for it;     *)
(*  - worker.end() called again on a worker that is ending or has ended    *)
(*    may resolve or reject: both outcomes are kept.                       *)
(* The --help and --turbo branches of nextDev and the contents of          *)
(* preflight (warnings only) have no part in the lifecycle and are left    *)
(* to the awaits they sit in.                                              *)
(***************************************************************************)
EXTENDS Integers, Sequences, FiniteSets, TLC

\* ------------------------------------------------------------- bounds ----
MaxChanges == 2          \* config-file change notifications delivered

\* ---------------------------------------------------- program constants --
maxRetries == 8          \* new Worker(..., { maxRetries: 8 })
Undefined == -1          \* `let config` before any loadConfig resolved
NoWorker == 0            \* `let runningServer ... | undefined`

WorkerIds == 1..(MaxChanges + 1)  \* every runDevServer call creates one worker
Signals == {"SIGINT", "SIGTERM"}

\* The asynchronous invocations in flight are kept by what they wait for:
\* nextDev itself in pcMain; the onChange callbacks that await
\* createRouterWorker in `creating`; those that await runningServer.cleanup()
\* in the awaitingEnd field of that worker; and every runDevServer call that
\* holds a worker in the `stage` field of its worker.
VARIABLES
  args,                \* the parsed command line and environment
  exited, exitCode,    \* the parent process: has it exited, and with what status
  exitCause,           \* which code path called process.exit first
  printed,             \* console.error(err) / printAndExit calls
  config,              \* module variable `config`: Undefined or a snapshot version
  fileVer,             \* version of the config files on disk (= change events so far)
  traceUploadUrl,      \* module variable `traceUploadUrl` is set
  sessionStopHandled,  \* module variable `sessionStopHandled`
  stopPc,              \* position of the suspended handleSessionStop invocation
  stopRuns,            \* times execution passed line 42 (entered the handler body)
  stopEarly,           \* the handler body was entered while config was undefined
  stopLog,             \* the side effects of the handler, in order
  signalled,           \* SIGINT or SIGTERM was delivered to the parent
  workers,             \* worker id -> the Worker created by createRouterWorker
  nextW,               \* id of the next worker to be created
  runningServer,       \* `let runningServer`: NoWorker or a worker id
  pcMain,              \* nextDev: "boot", "createWorker" or "hasWorker"
  creating,            \* onChange callbacks suspended in createRouterWorker
  changeMidRestart,    \* a change event was delivered while a restart was in progress
  notices              \* 'manual restart required' messages logged (line 406)

vars == <<args, exited, exitCode, exitCause, printed, config, fileVer,
          traceUploadUrl, sessionStopHandled, stopPc, stopRuns, stopEarly,
          stopLog, signalled, workers, nextW, runningServer, pcMain,
          creating, changeMidRestart, notices>>

\* ------------------------------------------------------------ workers ----
\* The listeners createRouterWorker registers for one worker: the child's
\* 'exit' and the five listeners of the parent process.
ProcessListeners ==
  {"exit", "SIGINT", "SIGTERM", "uncaughtException", "unhandledRejection"}

\* (mutant of RegisteredListeners: the child's 'exit' listener is forgotten)
ListenersWithoutChildExit == ProcessListeners

RegisteredListeners == {"childExit"} \cup ProcessListeners

\* stage: where the runDevServer call that created the worker stands:
\* "cert" (awaits createSelfSignedCertificate), "startServer" (issued,
\* awaited), "preflight" (server listening, preflight awaited), "returned".
\* cert: the certificate in the payload of the pending startServer call.
NoWorkerYet ==
  [created |-> FALSE, reboot |-> FALSE, listeners |-> {}, childAlive |-> FALSE,
   killed |-> FALSE, retries |-> 0, endCalls |-> 0, awaitingEnd |-> 0,
   ended |-> FALSE, stage |-> "none", exitedOnOwn |-> FALSE,
   overlapAtStart |-> FALSE, cfg |-> Undefined, cert |-> "none"]

\* new Worker(...) followed by the listener registrations.
NewWorker(cfg, reboot) ==
  [NoWorkerYet EXCEPT !.created = TRUE, !.reboot = reboot,
                      !.listeners = RegisteredListeners,
                      !.childAlive = TRUE, !.cfg = cfg]

Min(S) == CHOOSE x \in S : \A y \in S : x <= y

\* The inner `cleanup` of createRouterWorker kills every child of its pool.
Kill(ws, w) == [ws EXCEPT ![w].killed = TRUE]

Listening(ws, ev) == {w \in WorkerIds : ev \in ws[w].listeners}

\* process.exit(code) called while the process is not yet exiting: 'exit' is
\* emitted; the first 'exit' listener is the `cleanup` of the oldest
\* registered worker, which kills its children and calls process.exit(0);
\* that nested call ends the process at once with status 0.
ProcessExit(ws, code) ==
  IF Listening(ws, "exit") = {}
    THEN [ws |-> ws, code |-> code]
    ELSE [ws |-> Kill(ws, Min(Listening(ws, "exit"))), code |-> 0]

\* `cleanup` of worker w invoked as a listener.
CleanupListener(ws, w) == ProcessExit(Kill(ws, w), 0)

\* Event ev emitted on the parent after handleSessionStop (if registered for
\* it) has returned: the cleanup listeners of the workers follow in
\* registration order; with none, `fallback` is what the runtime does.
Emit(ws, ev, fallback) ==
  IF Listening(ws, ev) = {}
    THEN fallback
    ELSE CleanupListener(ws, Min(Listening(ws, ev)))

Running == [ws |-> workers, code |-> Undefined]

\* The parent after an event: res.code = Undefined means it keeps running.
Outcome(res, cause) ==
  /\ workers' = res.ws
  /\ IF res.code = Undefined
       THEN UNCHANGED <<exited, exitCode, exitCause>>
       ELSE /\ exited' = TRUE
            /\ exitCode' = res.code
            /\ exitCause' = cause

\* (mutant of Dispose: the listeners of the parent process are left on)
DisposeKeepsProcessListeners(wr) ==
  [wr EXCEPT !.listeners = @ \ {"childExit"},
             !.endCalls = @ + 1,
             !.awaitingEnd = @ + 1]

\* (mutant of Dispose: the child's 'exit' listener is left on)
DisposeKeepsChildListener(wr) ==
  [wr EXCEPT !.listeners = @ \ ProcessListeners,
             !.endCalls = @ + 1,
             !.awaitingEnd = @ + 1]

\* The returned `cleanup` up to its await: listeners off, worker.end() called.
Dispose(wr) ==
  [wr EXCEPT !.listeners = @ \ RegisteredListeners,
             !.endCalls = @ + 1,
             !.awaitingEnd = @ + 1]

Live(w) == workers[w].created /\ ~workers[w].ended

Starting == {"cert", "startServer", "preflight"}

\* The onChange callbacks between their first await and their end.
Cleaning == {w \in WorkerIds : workers[w].awaitingEnd > 0}
RebootStarting == {w \in WorkerIds : workers[w].reboot /\ workers[w].stage \in Starting}
RestartInProgress == creating > 0 \/ Cleaning # {} \/ RebootStarting # {}

\* ---------------------------------------------------------------- Init ---
Init ==
  /\ args \in [https : {"off", "paths", "selfsigned"},
               uploadTrace : BOOLEAN,
               disableWatcher : BOOLEAN]
  /\ exited = FALSE
  /\ exitCode = Undefined
  /\ exitCause = "none"
  /\ printed = 0
  /\ config = Undefined
  /\ fileVer = 0
  /\ traceUploadUrl = FALSE
  /\ sessionStopHandled = FALSE
  /\ stopPc = "idle"
  /\ stopRuns = 0
  /\ stopEarly = FALSE
  /\ stopLog = <<>>
  /\ signalled = FALSE
  /\ workers = [w \in WorkerIds |-> NoWorkerYet]
  /\ nextW = 1
  /\ runningServer = NoWorker
  /\ pcMain = "boot"
  /\ creating = 0
  /\ changeMidRestart = FALSE
  /\ notices = 0

stopVars == <<sessionStopHandled, stopPc, stopRuns, stopEarly, stopLog,
              signalled>>
pipeVars == <<nextW, runningServer, pcMain, creating, changeMidRestart>>
procVars == <<exited, exitCode, exitCause>>
envVars == <<args, config, fileVer, traceUploadUrl, notices>>

\* ------------------------------------------------------------- nextDev ---
\* nextDev from its first await to the first await of runDevServer(false):
\* config is loaded, traceUploadUrl set, the watcher registered.
MainLoadConfig ==
  /\ ~exited /\ pcMain = "boot"
  /\ config' = fileVer
  /\ traceUploadUrl' = args.uploadTrace
  /\ pcMain' = "createWorker"
  /\ UNCHANGED <<args, fileVer, notices, printed, workers, nextW,
                 runningServer, creating, changeMidRestart>>
  /\ UNCHANGED procVars
  /\ UNCHANGED stopVars

\* The project root is no directory: printAndExit.
MainNoSuchDir ==
  /\ ~exited /\ pcMain = "boot"
  /\ printed' = printed + 1
  /\ Outcome(ProcessExit(workers, 1), "noSuchDir")
  /\ UNCHANGED envVars
  /\ UNCHANGED stopVars
  /\ UNCHANGED pipeVars

\* ------------------------------------------------------- runDevServer ---
\* startServer is issued on worker w with certificate `cert`.
IssueStartServer(ws, w, cert) ==
  [ws EXCEPT ![w].stage = "startServer",
             ![w].cert = cert,
             ![w].overlapAtStart =
                \E v \in WorkerIds \ {w} :
                   ws[v].stage \in {"startServer", "preflight", "returned"}
                   /\ ~ws[v].ended]

\* What `certificate` may hold after `await createSelfSignedCertificate(host)`:
\* it is declared `{ key, cert } | undefined`.
GeneratedCertificate == {"selfsigned", "undefined"}

\* (mutant of ExplicitCertificate: a restart starts the server without TLS)
CertificateOnFirstStartOnly(reboot) ==
  IF args.https = "paths" /\ ~reboot THEN "paths" ELSE "none"

\* The certificate of the startServer payload when no certificate has to be
\* generated: the two resolved paths when --experimental-https came with
\* both of them, no certificate when TLS was not requested.
ExplicitCertificate(reboot) ==
  IF args.https = "paths" THEN "paths" ELSE "none"

\* createRouterWorker resumes after `await genRouterWorkerExecArgv`: the
\* Worker is constructed and the listeners registered; runDevServer(reboot)
\* then runs to its next await (createSelfSignedCertificate or startServer).
CreateWorker(reboot) ==
  /\ ~exited
  /\ IF reboot THEN creating > 0 ELSE pcMain = "createWorker"
  /\ LET w == nextW
         ws == [workers EXCEPT ![w] = NewWorker(config, reboot)]
     IN /\ nextW' = w + 1
        /\ workers' =
             IF args.https = "selfsigned"
               THEN [ws EXCEPT ![w].stage = "cert"]
               ELSE IssueStartServer(ws, w, ExplicitCertificate(reboot))
  /\ IF reboot
       THEN creating' = creating - 1 /\ UNCHANGED pcMain
       ELSE pcMain' = "hasWorker" /\ UNCHANGED creating
  /\ UNCHANGED <<printed, runningServer, changeMidRestart>>
  /\ UNCHANGED procVars
  /\ UNCHANGED envVars
  /\ UNCHANGED stopVars

\* createSelfSignedCertificate resolved: startServer is issued with what it
\* resolved with.
CertDone(w, cert) ==
  /\ ~exited /\ workers[w].stage = "cert"
  /\ workers' = IssueStartServer(workers, w, cert)
  /\ UNCHANGED printed
  /\ UNCHANGED procVars
  /\ UNCHANGED envVars
  /\ UNCHANGED stopVars
  /\ UNCHANGED pipeVars

\* startServer resolved: the server listens; preflight(reboot) is awaited.
StartServerDone(w) ==
  /\ ~exited /\ workers[w].stage = "startServer"
  /\ workers' = [workers EXCEPT ![w].stage = "preflight", ![w].cert = "none"]
  /\ UNCHANGED printed
  /\ UNCHANGED procVars
  /\ UNCHANGED envVars
  /\ UNCHANGED stopVars
  /\ UNCHANGED pipeVars

\* preflight resolved: runDevServer returns { cleanup } and its caller
\* (nextDev or the onChange callback) assigns it to runningServer.
PreflightDone(w) ==
  /\ ~exited /\ workers[w].stage = "preflight"
  /\ workers' = [workers EXCEPT ![w].stage = "returned"]
  /\ runningServer' = w
  /\ UNCHANGED <<printed, nextW, pcMain, creating, changeMidRestart>>
  /\ UNCHANGED procVars
  /\ UNCHANGED envVars
  /\ UNCHANGED stopVars

\* An await of runDevServer(reboot) rejects (createRouterWorker,
\* createSelfSignedCertificate, startServer or preflight): catch,
\* console.error, process.exit(1).
RunDevServerFails(reboot) ==
  /\ ~exited
  /\ \/ IF reboot THEN creating > 0 ELSE pcMain = "createWorker"
     \/ \E w \in WorkerIds :
          workers[w].reboot = reboot /\ workers[w].stage \in Starting
  /\ printed' = printed + 1
  /\ Outcome(ProcessExit(workers, 1),
             IF reboot THEN "rebootFailure" ELSE "startFailure")
  /\ UNCHANGED envVars
  /\ UNCHANGED stopVars
  /\ UNCHANGED pipeVars

\* ----------------------------------------------- watchConfigFiles callback
\* (mutant of WatcherDisabled: the escape hatch is not consulted)
WatcherFlagIgnored == FALSE

\* `if (process.env.__NEXT_DISABLE_MEMORY_WATCHER)`
WatcherDisabled == args.disableWatcher

\* A config file changed: the callback runs to its first await, or to its
\* return after the 'manual restart required' message.
Change ==
  /\ ~exited /\ pcMain # "boot" /\ fileVer < MaxChanges
  /\ fileVer' = fileVer + 1
  /\ IF WatcherDisabled
       THEN /\ notices' = notices + 1
            /\ UNCHANGED <<workers, creating, changeMidRestart>>
       ELSE /\ UNCHANGED notices
            /\ changeMidRestart' = (changeMidRestart \/ RestartInProgress)
            /\ IF runningServer # NoWorker
                 THEN /\ workers' = [workers EXCEPT ![runningServer] = Dispose(@)]
                      /\ UNCHANGED creating
                 ELSE /\ creating' = creating + 1
                      /\ UNCHANGED workers
  /\ UNCHANGED <<args, config, traceUploadUrl, printed, nextW, runningServer,
                 pcMain>>
  /\ UNCHANGED procVars
  /\ UNCHANGED stopVars

\* `await runningServer.cleanup()` of one callback resolved: worker.end() made
\* the child exit (a repeated end() of one worker may resolve or reject, see
\* CleanupFails). A child 'exit' listener still registered at that exit runs
\* `cleanup`; otherwise runDevServer(true) starts and suspends in
\* createRouterWorker.
CleanupDone(w) ==
  /\ ~exited /\ workers[w].awaitingEnd > 0
  /\ LET ws == [workers EXCEPT ![w].ended = TRUE,
                               ![w].childAlive = FALSE,
                               ![w].awaitingEnd = @ - 1]
     IN  IF workers[w].childAlive /\ "childExit" \in workers[w].listeners
           THEN /\ Outcome(CleanupListener(ws, w), "teardownExit")
                /\ UNCHANGED creating
           ELSE /\ Outcome([ws |-> ws, code |-> Undefined], "none")
                /\ creating' = creating + 1
  /\ UNCHANGED <<printed, nextW, runningServer, pcMain, changeMidRestart>>
  /\ UNCHANGED envVars
  /\ UNCHANGED stopVars

\* `await runningServer.cleanup()` rejected: catch, console.error, exit(1).
CleanupFails ==
  /\ ~exited /\ Cleaning # {}
  /\ printed' = printed + 1
  /\ Outcome(ProcessExit(workers, 1), "restartFailure")
  /\ UNCHANGED envVars
  /\ UNCHANGED stopVars
  /\ UNCHANGED pipeVars

\* ---------------------------------------------------- handleSessionStop --
\* (mutant of StopAlreadyHandled: the flag is never consulted)
StopNeverHandled == FALSE

\* `if (sessionStopHandled) return`
StopAlreadyHandled == sessionStopHandled

TrySteps == {"telemetry", "pagesDir", "record", "flush"}

\* (mutant of TryLog: the event is flushed before it is recorded)
TryLogFlushFirst(fail) ==
  IF fail = "none" THEN <<"flush", "record">>
  ELSE IF fail = "flush" THEN <<"record">>
  ELSE <<>>

\* The effects of the try block when step `fail` throws ("none": no throw).
TryLog(fail) ==
  IF fail = "none" THEN <<"record", "flush">>
  ELSE IF fail = "flush" THEN <<"record">>
  ELSE <<>>

\* handleSessionStop from the point where the config load has settled to its
\* end. loadFailed: loadConfig rejected; tryFail: the step of the try block
\* that throws; upThrows: uploadTrace (called only with a URL) throws; cfg: `config` at that point;
\* onThrow: what follows the rejection of the handler's promise.
StopTail(loadFailed, tryFail, upThrows, cfg, onThrow) ==
  LET log1 == IF loadFailed THEN <<>> ELSE TryLog(tryFail)
      threw == traceUploadUrl /\ (upThrows \/ cfg = Undefined)
      log2 == IF traceUploadUrl /\ ~threw THEN log1 \o <<"upload">> ELSE log1
  IN  IF threw
        THEN /\ stopLog' = log2
             /\ stopPc' = "threw"
             /\ Outcome(onThrow, "stopThrew")
        ELSE /\ stopLog' = log2 \o <<"cursor", "newline", "exit">>
             /\ stopPc' = "done"
             /\ Outcome(ProcessExit(workers, 0), "stop")

\* An unhandled rejection in the parent: the workers' listeners, else the
\* runtime ends the process with status 1.
UnhandledRejection == Emit(workers, "unhandledRejection", [ws |-> workers, code |-> 1])

\* SIGINT or SIGTERM is delivered: handleSessionStop, registered first, runs
\* to its first await or to its end, then the workers' listeners run.
Signal(sig, tryFail, upThrows) ==
  /\ ~exited
  /\ upThrows => traceUploadUrl
  /\ signalled' = TRUE
  /\ IF StopAlreadyHandled
       THEN /\ Outcome(Emit(workers, sig, Running), "signalCleanup")
            /\ UNCHANGED <<sessionStopHandled, stopPc, stopRuns, stopEarly,
                           stopLog>>
       ELSE /\ sessionStopHandled' = TRUE
            /\ stopRuns' = stopRuns + 1
            /\ stopEarly' = (stopEarly \/ config = Undefined)
            /\ IF config = Undefined
                 THEN /\ stopPc' = "loadConfig"
                      /\ Outcome(Emit(workers, sig, Running), "signalCleanup")
                      /\ UNCHANGED stopLog
                 ELSE StopTail(FALSE, tryFail, upThrows, config,
                               Emit(workers, sig, UnhandledRejection))
  /\ UNCHANGED printed
  /\ UNCHANGED envVars
  /\ UNCHANGED pipeVars

\* The handler's `await loadConfig(...)` resolved: config is assigned the
\* fallback snapshot and the handler runs to its end.
StopLoadConfigDone(tryFail, upThrows) ==
  /\ ~exited /\ stopPc = "loadConfig"
  /\ upThrows => traceUploadUrl
  /\ config' = fileVer
  /\ StopTail(FALSE, tryFail, upThrows, fileVer, UnhandledRejection)
  /\ UNCHANGED <<args, printed, fileVer, traceUploadUrl, notices,
                 sessionStopHandled, stopRuns, stopEarly, signalled>>
  /\ UNCHANGED pipeVars

\* The handler's `await loadConfig(...)` rejected: the catch swallows it.
StopLoadConfigFails(upThrows) ==
  /\ ~exited /\ stopPc = "loadConfig"
  /\ upThrows => traceUploadUrl
  /\ StopTail(TRUE, "none", upThrows, config, UnhandledRejection)
  /\ UNCHANGED <<printed, sessionStopHandled, stopRuns, stopEarly, signalled>>
  /\ UNCHANGED envVars
  /\ UNCHANGED pipeVars

\* ------------------------------------------------------ child and errors --
\* The pool respawns a crashed child while its retry budget lasts.
PoolRespawns(wr, crash) == crash /\ wr.retries < maxRetries

\* The child of worker w exits on its own (crash: with a failure status).
\* The pool's own 'exit' listener runs first and may respawn; the listener
\* createRouterWorker put on the original child then runs `cleanup`.
ChildExit(w, crash) ==
  /\ ~exited /\ workers[w].childAlive /\ workers[w].endCalls = 0
  /\ LET ws == [workers EXCEPT
                  ![w].retries = IF crash THEN @ + 1 ELSE @,
                  ![w].childAlive = PoolRespawns(workers[w], crash),
                  ![w].exitedOnOwn = TRUE]
     IN  IF "childExit" \in workers[w].listeners /\ workers[w].retries = 0
           THEN Outcome(CleanupListener(ws, w),
                        IF crash THEN "childCrash" ELSE "childExit")
           ELSE Outcome([ws |-> ws, code |-> Undefined], "none")
  /\ UNCHANGED printed
  /\ UNCHANGED envVars
  /\ UNCHANGED stopVars
  /\ UNCHANGED pipeVars

\* An uncaught exception or unhandled rejection from elsewhere in the parent.
UncaughtError(ev) ==
  /\ ~exited
  /\ Outcome(Emit(workers, ev, [ws |-> workers, code |-> 1]), "uncaught")
  /\ UNCHANGED printed
  /\ UNCHANGED envVars
  /\ UNCHANGED stopVars
  /\ UNCHANGED pipeVars

Next ==
  \/ MainLoadConfig
  \/ MainNoSuchDir
  \/ \E reboot \in BOOLEAN : CreateWorker(reboot)
  \/ \E w \in WorkerIds, cert \in GeneratedCertificate : CertDone(w, cert)
  \/ \E w \in WorkerIds : StartServerDone(w)
  \/ \E w \in WorkerIds : PreflightDone(w)
  \/ \E reboot \in BOOLEAN : RunDevServerFails(reboot)
  \/ Change
  \/ \E w \in WorkerIds : CleanupDone(w)
  \/ CleanupFails
  \/ \E sig \in Signals, f \in TrySteps \cup {"none"}, u \in BOOLEAN :
       Signal(sig, f, u)
  \/ \E f \in TrySteps \cup {"none"}, u \in BOOLEAN : StopLoadConfigDone(f, u)
  \/ \E u \in BOOLEAN : StopLoadConfigFails(u)
  \/ \E w \in WorkerIds, crash \in BOOLEAN : ChildExit(w, crash)
  \/ \E ev \in {"uncaughtException", "unhandledRejection"} : UncaughtError(ev)

Spec == Init /\ [][Next]_vars

\* ================================================================ claims ==
Count(seq, x) == Cardinality({i \in 1..Len(seq) : seq[i] = x})

InLog(x) == Count(stopLog, x) > 0

RECURSIVE SumAwaitingEnd(_)
SumAwaitingEnd(S) ==
  IF S = {} THEN 0
  ELSE LET w == Min(S) IN workers[w].awaitingEnd + SumAwaitingEnd(S \ {w})

\* The onChange callbacks that have begun their cleanup-then-start sequence
\* and not finished it.
RestartsInFlight ==
  creating + SumAwaitingEnd(WorkerIds) + Cardinality(RebootStarting)

\* Every asynchronous start or restart has run to completion.
Settled ==
  /\ ~exited
  /\ pcMain = "hasWorker" /\ creating = 0 /\ Cleaning = {}
  /\ \A w \in WorkerIds : workers[w].stage \notin Starting

LiveWorkers == {w \in WorkerIds : Live(w)}

ServingWorkers ==
  {w \in LiveWorkers : workers[w].stage \in {"preflight", "returned"}}

\* handleSessionStop has run to its end (normally or by throwing) and one of
\* its steps 1-5 failed on the way.
StopStepFailed ==
  /\ stopPc \in {"done", "threw"}
  /\ ~InLog("flush") \/ stopPc = "threw"

C2_AtMostOneLiveWorker == Cardinality(ServingWorkers) <= 1

\* C3 (as claimed): when change events were delivered while a restart was in
\* progress and all starts and restarts have run to completion, exactly one
\* worker is live and runningServer refers to it.
C3_OneWorkerAfterSettle ==
  (changeMidRestart /\ Settled) =>
     (Cardinality(LiveWorkers) = 1 /\ runningServer \in LiveWorkers)

\* C4 (as claimed): startServer is never issued on a new worker while a
\* worker on which startServer was issued before has not yet been ended.
C4_TeardownBeforeStart ==
  \A w \in WorkerIds : ~workers[w].overlapAtStart

\* C5 (as claimed): at most one cleanup-then-start sequence of the onChange
\* callback is in progress at any time.
C5_RestartsExclusive == RestartsInFlight <= 1

\* C6 (as claimed): when a step of the stop handler fails, the handler still
\* restores the cursor and exits the process with status 0.
C6_FailuresSwallowed ==
  StopStepFailed =>
     (stopPc = "done" /\ InLog("cursor") /\ exited /\ exitCode = 0)

\* C7 (as claimed): a stop handler entered before any config was loaded
\* does not throw, and when it has run to its end the process has exited.
C7_EarlyStopCompletes ==
  stopEarly => (stopPc # "threw" /\ (stopPc = "done" => exited))

\* C8 (as claimed): up to maxRetries crashes of a worker's child leave the
\* parent running, and at crash maxRetries + 1 the parent has exited with a
\* non-zero status.
C8_RetryBudget ==
  \A w \in WorkerIds :
     /\ workers[w].retries \in 1..maxRetries =>
          ~(exited /\ exitCause = "childCrash")
     /\ workers[w].retries = maxRetries + 1 => (exited /\ exitCode # 0)

\* C9: no state has a running parent and a worker whose child exited on its
\* own (not by the teardown of a restart): the exit of the child ends the
\* parent in the same turn of the event loop.
C9_ChildExitEndsParent ==
  \A w \in WorkerIds : workers[w].exitedOnOwn => exited

\* C9 witness: the child of a worker exited on its own and the parent exited.
C9_Witness ==
  /\ exited /\ exitCause \in {"childCrash", "childExit"}
  /\ \E w \in WorkerIds : workers[w].exitedOnOwn /\ workers[w].killed

\* C10 (as claimed): when a step of runDevServer fails, the error is printed
\* and the parent exits with a non-zero status.
C10_StartFailureNonZero ==
  (exited /\ exitCause \in {"startFailure", "rebootFailure"}) =>
     (printed > 0 /\ exitCode # 0)

\* C11 (as claimed): when, during a restart, the cleanup of the old worker
\* rejects or a step of runDevServer(true) fails, the error is printed and
\* the parent exits with a non-zero status.
C11_RestartFailureNonZero ==
  (exited /\ exitCause \in {"restartFailure", "rebootFailure"}) =>
     (printed > 0 /\ exitCode # 0)

\* C12: with __NEXT_DISABLE_MEMORY_WATCHER set, a config-file change
\* notification logs the 'manual restart required' message and nothing else:
\* cleanup is not called, no worker is created, and runningServer, the
\* workers and the pending restarts are left as they were.
C12_DisabledWatcherOnlyLogs ==
  [][(args.disableWatcher /\ fileVer' # fileVer) =>
        /\ notices' = notices + 1
        /\ UNCHANGED <<workers, runningServer, nextW, creating, pcMain,
                       printed, exited>>]_vars

\* C12 witness: the flag is set, a change was notified and logged while a
\* worker was running, and that worker still runs.
C12_Witness ==
  /\ args.disableWatcher /\ fileVer > 0 /\ notices = fileVer /\ ~exited
  /\ runningServer # NoWorker /\ Live(runningServer)
  /\ workers[runningServer].endCalls = 0 /\ nextW = 2

RECURSIVE SumEndCalls(_)
SumEndCalls(S) ==
  IF S = {} THEN 0
  ELSE LET w == Min(S) IN workers[w].endCalls + SumEndCalls(S \ {w})

\* Every change notification so far was delivered while no start and no
\* restart was in progress: none arrived during a restart, and each found a
\* runningServer to clean up (a callback that finds none was delivered
\* before the first start had returned).
SequentialRestarts ==
  /\ ~args.disableWatcher
  /\ ~changeMidRestart
  /\ fileVer = SumEndCalls(WorkerIds)

\* C13: a worker whose returned cleanup has returned holds none of the
\* listeners createRouterWorker registered for it and its child has ended;
\* and once sequential restarts have run to completion, the listeners
\* registered are exactly those of the current worker.
C13_CleanupUnregistersAll ==
  /\ \A w \in WorkerIds :
        workers[w].ended =>
           (workers[w].listeners = {} /\ ~workers[w].childAlive)
  /\ (SequentialRestarts /\ Settled) =>
        /\ runningServer # NoWorker
        /\ \A w \in WorkerIds :
              workers[w].listeners =
                 IF w = runningServer THEN RegisteredListeners ELSE {}

\* C13 witness: two sequential restarts have completed; the first two
\* workers were cleaned up without ending the parent and the third is
\* current.
C13_Witness ==
  /\ SequentialRestarts /\ Settled /\ fileVer = 2
  /\ workers[1].ended /\ workers[2].ended /\ runningServer = 3
  /\ workers[3].listeners = RegisteredListeners

\* C18: the exit of a child brought about by worker.end() never runs the
\* process-exiting `cleanup`: the parent never exits because of a teardown.
C18_TeardownKeepsParent == exitCause # "teardownExit"

\* C18 witness: worker.end() was called once on the old worker while its
\* child was alive, the child has ended, and the parent runs on.
C18_Witness ==
  /\ ~exited
  /\ \E w \in WorkerIds :
        /\ workers[w].ended /\ workers[w].endCalls = 1
        /\ ~workers[w].childAlive /\ ~workers[w].killed

\* The place of a side effect of handleSessionStop in the listed order.
StepRank(e) ==
  CASE e = "record" -> 1
    [] e = "flush" -> 2
    [] e = "upload" -> 3
    [] e = "cursor" -> 4
    [] e = "newline" -> 5
    [] e = "exit" -> 6

\* C14: the side effects of the stop handler occur in the listed order:
\* telemetry record, detached flush, trace upload, cursor-show sequence,
\* newline, process exit; and the exit it ends with has status 0.
C14_StopStepsInOrder ==
  /\ \A i, j \in 1..Len(stopLog) :
        i < j => StepRank(stopLog[i]) < StepRank(stopLog[j])
  /\ InLog("exit") =>
        (stopLog[Len(stopLog)] = "exit" /\ exited /\ exitCode = 0)

\* C14 witness: a stop with a trace upload URL where every step happened.
C14_Witness ==
  /\ stopLog = <<"record", "flush", "upload", "cursor", "newline", "exit">>
  /\ traceUploadUrl /\ exited /\ exitCode = 0 /\ exitCause = "stop"

\* C15 (as claimed): every worker started by a restart is created with a
\* configuration snapshot loaded after a config-file change, never with the
\* snapshot of the initial startup (version 0).
C15_RestartUsesReloadedConfig ==
  \A w \in WorkerIds :
     (workers[w].created /\ workers[w].reboot) => workers[w].cfg >= 1

\* C16 (as claimed): when SIGINT/SIGTERM is delivered while a restart is in
\* progress, the stop handler runs at once and the parent exits with
\* status 0.
C16_SignalDuringRestartExitsZero ==
  (exited /\ exitCause \in {"stop", "stopThrew"} /\ ~stopEarly
     /\ RestartInProgress) => exitCode = 0

\* C19 (as claimed): when the parent has exited, every worker child still
\* alive has been sent the kill signal by the parent.
C19_NoChildLeftBehind ==
  exited => \A w \in WorkerIds : workers[w].childAlive => workers[w].killed

\* C20 (as claimed): the returned cleanup of a worker, and with it
\* worker.end(), is called at most once.
C20_CleanupOncePerWorker ==
  \A w \in WorkerIds : workers[w].endCalls <= 1

\* The workers whose startServer call is pending.
StartPending == {w \in WorkerIds : workers[w].stage = "startServer"}

\* C17 (as claimed): the startServer payload carries certificate material
\* if and only if --experimental-https was requested.
C17_CertificateIffHttps ==
  \A w \in StartPending :
     workers[w].cert \in {"paths", "selfsigned"} <=> args.https # "off"

\* C17 (amended): the payload of every start, first or restart, carries
\* certificate material only if --experimental-https was requested; with TLS
\* disabled it carries none; with both key and cert paths it carries exactly
\* those paths; otherwise it carries what createSelfSignedCertificate
\* resolved with, which may be no certificate.
C17_CertificateFollowsArgs ==
  \A w \in StartPending :
     /\ workers[w].cert \in {"paths", "selfsigned"} => args.https # "off"
     /\ args.https = "off" => workers[w].cert = "none"
     /\ args.https = "paths" => workers[w].cert = "paths"
     /\ args.https = "selfsigned" => workers[w].cert \in GeneratedCertificate

\* C17 witness: with both paths given, the first start has completed, its
\* worker was cleaned up by a restart, and the restart's startServer call
\* is pending with the paths as certificate.
C17_Witness ==
  /\ args.https = "paths" /\ ~exited
  /\ workers[1].stage = "returned" /\ workers[1].ended
  /\ \E w \in StartPending : workers[w].reboot /\ workers[w].cert = "paths"
====
